---------------------------- MODULE Spec2Model ----------------------------
(***************************************************************************)
(* A model of marian's full-text search core (src/src/fts/fts.ts) and of   *)
(* the worker that owns one index (src/src/worker-searcher.js).            *)
(*                                                                         *)
(* Representation.                                                         *)
(*   - A token is a sequence of one-character strings, so that prefix      *)
(*     tests, startsWith and slice are computed structurally.              *)
(*   - A field's text is the sequence of its raw tokens; <<>> is an absent *)
(*     (undefined or empty) text.                                          *)
(*   - A URL is the sequence of its path segments: "/guide/index.html" is  *)
(*     <<"guide", "index.html">>, "/guide/" is <<"guide", "">>, "/a" is    *)
(*     <<"a">>.  <<>> stands for an undefined url.                         *)
(*   - A JavaScript Map is a function whose DOMAIN is its key set.         *)
(*   - Closeness weights are in tenths (0.9 is 9, 1.0 is 10).              *)
(***************************************************************************)
EXTENDS Integers, Sequences, FiniteSets, TLC

VARIABLES
    fts,        \* the FTSIndex under test
    outcome,    \* what the last call on fts did: its kind, return value, ...
    added,      \* history: the <<propertyName, document>> of every add that returned
    returned,   \* history: the ids returned by add, in call order
    tokenLog,   \* history: every token position add recorded, in ingest order
    calls,      \* history: the number of calls of add so far
    index,                  \* the worker's index, NoIndex until a sync installs one
    documents,              \* the worker's documents: doc id -> what search returns
    searchPropertyAliases,  \* the worker's alias -> searchProperty map
    spelling,               \* the worker's spelling dictionary, NoSpelling until loaded
    loading,    \* the dictionary loads in flight, by the number of their sync
    reply,      \* the last message the worker posted
    origin,     \* history: the number of the sync that assigned each global
    syncLog     \* history: "ok" or "threw" for every sync message handled

ftsVars == <<fts, outcome, added, returned, tokenLog, calls>>

workerVars ==
    <<index, documents, searchPropertyAliases, spelling, loading, reply, origin, syncLog>>

vars == <<ftsVars, workerVars>>

-----------------------------------------------------------------------------
(* Bounds of the model. *)

MaxDocs == 2
MaxLen == 3
MaxLinks == 1
MaxSyncs == 2
MaxCorrelations == 3

-----------------------------------------------------------------------------
(* Maps. *)

EmptyMap == <<>>

Has(m, k) == k \in DOMAIN m

Get(m, k, dflt) == IF k \in DOMAIN m THEN m[k] ELSE dflt

Put(m, k, v) == [x \in (DOMAIN m) \cup {k} |-> IF x = k THEN v ELSE m[x]]

Range(s) == {s[i] : i \in DOMAIN s}

-----------------------------------------------------------------------------
(* Text analysis: Stemmer.ts is not part of the sources; these follow      *)
(* section 4.1 of the specification.                                       *)

DB == <<"d", "b">>
DBS == <<"d", "b", "s">>
A == <<"a">>
DollarDB == <<"$", "d", "b">>

Words == {DB, DBS, A, DollarDB}

StopWords == {A}

isStopWord(token) == token \in StopWords

\* A Porter-style stemmer restricted to the plural rule.
stem(token) ==
    IF Len(token) > 2 /\ token[Len(token)] = "s"
    THEN SubSeq(token, 1, Len(token) - 1)
    ELSE token

\* tokenize(text, keepPrefixes): a text is represented by its raw tokens.
tokenize(text) == text

startsWith(token, prefix) ==
    /\ Len(token) >= Len(prefix)
    /\ SubSeq(token, 1, Len(prefix)) = prefix

slice(token, n) == SubSeq(token, n + 1, Len(token))

-----------------------------------------------------------------------------
(* URLs. *)

Undefined == <<>>

IndexHtml == "index.html"

\* url.replace(/\/index.html$/, "/")
normalizeURL(url) ==
    IF Len(url) >= 1 /\ url[Len(url)] = IndexHtml
    THEN [url EXCEPT ![Len(url)] = ""]
    ELSE url

-----------------------------------------------------------------------------
(* The index. *)

FieldNames == <<"text", "headings", "title", "tags">>

NewField == [documents |-> EmptyMap, totalTokensSeen |-> 0]

NewTermEntry == [docs |-> <<>>, positions |-> EmptyMap, timesAppeared |-> EmptyMap]

NewIndex ==
    [ fields            |-> [n \in Range(FieldNames) |-> NewField],
      trie              |-> EmptyMap,
      terms             |-> EmptyMap,
      docID             |-> 0,
      termID            |-> 0,
      documentWeights   |-> EmptyMap,
      linkGraph         |-> EmptyMap,
      inverseLinkGraph  |-> EmptyMap,
      urlToId           |-> EmptyMap,
      idToUrl           |-> EmptyMap,
      incomingNeighbors |-> EmptyMap,
      outgoingNeighbors |-> EmptyMap,
      wordCorrelations  |-> EmptyMap ]

\* The key `${fieldName} ${propertyName}` that register writes.
RegisterKey(propertyName, fieldName) == <<fieldName, propertyName>>

\* The key that register reads the old count under: fieldName alone.
RegisterReadKey(propertyName, fieldName) == <<fieldName>>

register(entry, propertyName, fieldName, docID) ==
    [entry EXCEPT
        !.docs = Append(@, docID),
        !.timesAppeared =
            Put(@, RegisterKey(propertyName, fieldName),
                Get(@, RegisterReadKey(propertyName, fieldName), 0) + 1)]

getTimesAppeared(entry, propertyName, fieldName) ==
    Get(entry.timesAppeared, RegisterKey(propertyName, fieldName), 0)

addTokenPosition(entry, docID, tokenID) ==
    [entry EXCEPT
        !.positions = Put(@, docID, Append(Get(@, docID, <<>>), tokenID))]

\* Trie.js is not part of the sources; section 4.4 of the specification:
\* the trie maps a term to the set of doc ids registered under it.
trieInsert(trie, token, docID) == Put(trie, token, Get(trie, token, {}) \cup {docID})

\* word is given as its tokens (tokenize(word, false)); each is stemmed and
\* the stems joined with single spaces form the key, here the stem sequence.
correlateWord(idx, word, synonym, closeness) ==
    LET key == [i \in 1..Len(word) |-> stem(word[i])]
        syn == stem(synonym)
    IN  [idx EXCEPT
            !.wordCorrelations =
                Put(@, key, Append(Get(@, key, <<>>), <<syn, closeness>>))]

-----------------------------------------------------------------------------
(* add: the link-graph stage (fts.ts 376-392). *)

NoLinks == [kind |-> "undefined", items |-> <<>>]
NumberLinks == [kind |-> "number", items |-> <<>>]
ArrayLinks(items) == [kind |-> "array", items |-> items]

\* What linkGraph.set(document.url, document.links || []) stores.
StoredLinks(url, links) == links

RECURSIVE addInverseLinks(_, _, _, _)
addInverseLinks(inverse, url, items, i) ==
    IF i > Len(items) THEN inverse
    ELSE LET href == normalizeURL(items[i])
         IN  addInverseLinks(Put(inverse, href, Append(Get(inverse, href, <<>>), url)),
                             url, items, i + 1)

\* [idx, threw]: iterating links that are not iterable throws a TypeError
\* after linkGraph.set has run.
addLinks(idx, document) ==
    IF document.links.kind = "undefined" \/ document.url = Undefined
    THEN [idx |-> idx, threw |-> FALSE]
    ELSE LET url == normalizeURL(document.url)
             withForward ==
                 [idx EXCEPT !.linkGraph = Put(@, url, StoredLinks(url, document.links))]
         IN  IF document.links.kind = "number"
             THEN [idx |-> withForward, threw |-> TRUE]
             ELSE [idx |->
                      [withForward EXCEPT
                          !.inverseLinkGraph =
                              addInverseLinks(@, url, document.links.items, 1),
                          !.urlToId = Put(@, url, idx.docID),
                          !.idToUrl = Put(@, idx.docID, url)],
                   threw |-> FALSE]

-----------------------------------------------------------------------------
(* add: the field loop (fts.ts 394-451). *)

\* The stored form of a non-stop token: correlation-prefixed tokens are kept
\* verbatim, every other token is stemmed.
isPrefixed(token) == startsWith(token, <<"$">>) \/ startsWith(token, <<"%">>)

storedToken(token) == IF isPrefixed(token) THEN token ELSE stem(token)

correlatePrefixed(idx, token) ==
    IF startsWith(token, <<"%", "%">>)
    THEN correlateWord(idx, <<slice(token, 2)>>, token, 9)
    ELSE IF isPrefixed(token)
    THEN correlateWord(idx, <<slice(token, 1)>>, token, 9)
    ELSE idx

\* One non-stop token (fts.ts 415-440).  st = [idx, tf, n, log].
addToken(st, raw, propertyName, fieldName, docID) ==
    LET idx0   == correlatePrefixed(st.idx, raw)
        token  == storedToken(raw)
        termID == idx0.termID + 1
        entry0 == Get(idx0.terms, token, NewTermEntry)
        count  == Get(st.tf, token, 0)
        entry1 == IF count = 0
                  THEN register(entry0, propertyName, fieldName, docID)
                  ELSE entry0
        entry2 == addTokenPosition(entry1, docID, termID)
    IN  [ idx |-> [idx0 EXCEPT
                      !.termID = termID,
                      !.terms = Put(@, token, entry2),
                      !.trie = IF count = 0 THEN trieInsert(@, token, docID) ELSE @],
          tf  |-> Put(st.tf, token, count + 1),
          n   |-> st.n + 1,
          log |-> Append(st.log,
                         [doc |-> docID, field |-> fieldName, k |-> st.n + 1,
                          term |-> token, pos |-> termID]) ]

RECURSIVE addTokens(_, _, _, _, _, _)
addTokens(st, tokens, i, propertyName, fieldName, docID) ==
    IF i > Len(tokens) THEN st
    ELSE addTokens(IF isStopWord(tokens[i]) THEN st
                   ELSE addToken(st, tokens[i], propertyName, fieldName, docID),
                   tokens, i + 1, propertyName, fieldName, docID)

\* Mutant of bumpAfterField: no bump between fields.
bumpAfterFieldMissing(termID) == termID

\* "After each field, bump by one to prevent accidental adjacency."
bumpAfterField(termID) == termID + 1

fieldText(document, fieldName) ==
    CASE fieldName = "title"    -> document.title
      [] fieldName = "tags"     -> document.tags
      [] fieldName = "text"     -> document.text
      [] fieldName = "headings" -> document.headings
      [] OTHER                  -> <<>>

\* One field of the loop.  acc = [idx, log].
addField(acc, fieldName, propertyName, document, docID) ==
    LET text == fieldText(document, fieldName)
    IN  IF text = <<>> THEN acc
        ELSE LET st == addTokens([idx |-> acc.idx, tf |-> EmptyMap, n |-> 0,
                                  log |-> acc.log],
                                 tokenize(text), 1, propertyName, fieldName, docID)
             IN  [ idx |-> [st.idx EXCEPT
                              !.termID = bumpAfterField(@),
                              !.fields[fieldName] =
                                  [ totalTokensSeen |-> @.totalTokensSeen + st.n,
                                    documents |->
                                        Put(@.documents, docID,
                                            [ propertyName |-> propertyName,
                                              len |-> st.n,
                                              termFrequencies |-> st.tf ]) ]],
                   log |-> st.log ]

RECURSIVE addFields(_, _, _, _, _)
addFields(acc, i, propertyName, document, docID) ==
    IF i > Len(FieldNames) THEN acc
    ELSE addFields(addField(acc, FieldNames[i], propertyName, document, docID),
                   i + 1, propertyName, document, docID)

-----------------------------------------------------------------------------
(* add (fts.ts 372-457). *)

\* document.weight || 1, with 0 for an absent weight.
weightOrOne(weight) == IF weight = 0 THEN 1 ELSE weight

\* Mutant of finishAdd: the id counter is not advanced.
finishAddKeepsId(idx, docID, weight) ==
    [idx EXCEPT !.documentWeights = Put(@, docID, weightOrOne(weight))]

\* The last two statements: record the weight, advance the id counter.
finishAdd(idx, docID, weight) ==
    [idx EXCEPT
        !.documentWeights = Put(@, docID, weightOrOne(weight)),
        !.docID = @ + 1]

\* [idx, threw, id, log]: the index after the call, whether it threw, the id
\* it returned, and the token positions it recorded.
add(idx, propertyName, document) ==
    LET docID  == idx.docID
        linked == addLinks(idx, document)
    IN  IF linked.threw
        THEN [idx |-> linked.idx, threw |-> TRUE, id |-> docID, log |-> <<>>]
        ELSE LET acc == addFields([idx |-> linked.idx, log |-> <<>>], 1,
                                  propertyName, document, docID)
             IN  [ idx   |-> finishAdd(acc.idx, docID, document.weight),
                   threw |-> FALSE,
                   id    |-> docID,
                   log   |-> acc.log ]

-----------------------------------------------------------------------------
(* Insertion-ordered maps: a JavaScript Map that is iterated. *)

NewOrdered == [keys |-> <<>>, val |-> EmptyMap]

OSet(m, k, v) ==
    [ keys |-> IF k \in DOMAIN m.val THEN m.keys ELSE Append(m.keys, k),
      val  |-> Put(m.val, k, v) ]

Max(a, b) == IF a >= b THEN a ELSE b

\* The elements of a set of integers in ascending order.
RECURSIVE Ascending(_)
Ascending(S) ==
    IF S = {} THEN <<>>
    ELSE LET m == CHOOSE x \in S : \A y \in S : x <= y
         IN  <<m>> \o Ascending(S \ {m})

-----------------------------------------------------------------------------
(* Correlation expansion (fts.ts 345-370 and 536-546). *)

\* stemmedTerms.set(correlation, max(stemmedTerms.get(correlation) || 0, weight))
\* for every correlation stored under key.
RECURSIVE foldCorrelations(_, _, _)
foldCorrelations(m, correlations, i) ==
    IF i > Len(correlations) THEN m
    ELSE LET c == correlations[i]
         IN  foldCorrelations(OSet(m, c[1], Max(Get(m.val, c[1], 0), c[2])),
                              correlations, i + 1)

applyCorrelations(idx, m, key) ==
    IF key \in DOMAIN idx.wordCorrelations
    THEN foldCorrelations(m, idx.wordCorrelations[key], 1)
    ELSE m

RECURSIVE seedTerms(_, _, _)
seedTerms(m, terms, i) ==
    IF i > Len(terms) THEN m
    ELSE seedTerms(OSet(m, stem(terms[i]), 10), terms, i + 1)

RECURSIVE collectPairs(_, _, _, _)
collectPairs(idx, m, terms, i) ==
    IF i > Len(terms) THEN m
    ELSE LET single == applyCorrelations(idx, m, <<stem(terms[i])>>)
             both   == IF i < Len(terms)
                       THEN applyCorrelations(idx, single,
                                              <<stem(terms[i]), stem(terms[i + 1])>>)
                       ELSE single
         IN  collectPairs(idx, both, terms, i + 1)

collectCorrelations(idx, terms) ==
    collectPairs(idx, seedTerms(NewOrdered, terms, 1), terms, 1)

\* The loop of search over stemmedTerms.keys(): the iterator of a Map also
\* visits the keys that the loop body adds.
RECURSIVE expandTerms(_, _, _)
expandTerms(idx, m, i) ==
    IF i > Len(m.keys) THEN m
    ELSE expandTerms(idx, applyCorrelations(idx, m, <<m.keys[i]>>), i + 1)

-----------------------------------------------------------------------------
(* Candidate matches (fts.ts 519-529 and 554-618). *)

\* trie.search(term, true): doc id -> the indexed terms that start with term.
trieSearch(trie, term) ==
    LET hit  == {t \in DOMAIN trie : startsWith(t, term)}
        docs == UNION {trie[t] : t \in hit}
    IN  [d \in docs |-> {t \in hit : d \in trie[t]}]

RECURSIVE entriesOf(_, _, _)
entriesOf(found, ids, i) ==
    IF i > Len(ids) THEN <<>>
    ELSE <<[docID |-> ids[i], terms |-> found[ids[i]]]>> \o entriesOf(found, ids, i + 1)

RECURSIVE collectMatchesFromTrie(_, _, _)
collectMatchesFromTrie(idx, terms, i) ==
    IF i > Len(terms) THEN <<>>
    ELSE LET found == trieSearch(idx.trie, terms[i])
         IN  entriesOf(found, Ascending(DOMAIN found), 1)
                 \o collectMatchesFromTrie(idx, terms, i + 1)

\* new Match(docID, relevancyScore, terms); contributions counts, per term,
\* how often the term's relevance was added to relevancyScore.
NewMatch(docID, relevancyScore) ==
    [ _id |-> docID, relevancyScore |-> relevancyScore, terms |-> {},
      contributions |-> EmptyMap,
      incomingNeighbors |-> <<>>, outgoingNeighbors |-> <<>> ]

\* The filter of a query is the set of doc ids it accepts.
accepts(filter, docID) == docID \in filter

\* One tuple of the loop at fts.ts 554-599.
addTuple(idx, filter, matchSet, tuple) ==
    IF ~accepts(filter, tuple.docID) THEN matchSet
    ELSE LET old   == Get(matchSet.val, tuple.docID, NewMatch(tuple.docID, 0))
             known == {t \in tuple.terms : t \in DOMAIN idx.terms}
         IN  OSet(matchSet, tuple.docID,
                  [old EXCEPT
                      !.terms = @ \cup known,
                      !.contributions =
                          [t \in (DOMAIN @) \cup known |->
                              Get(@, t, 0) + IF t \in known THEN 1 ELSE 0]])

RECURSIVE addTuples(_, _, _, _, _)
addTuples(idx, filter, matchSet, tuples, i) ==
    IF i > Len(tuples) THEN matchSet
    ELSE addTuples(idx, filter, addTuple(idx, filter, matchSet, tuples[i]),
                   tuples, i + 1)

\* Query.checkPhrases (Query.ts is not part of the sources; section 4.8 of
\* the specification): every phrase has its terms at consecutive positions.
checkPhrases(phrases, tokens) ==
    \A n \in 1..Len(phrases) :
        LET phrase == phrases[n]
        IN  /\ \A i \in 1..Len(phrase) : stem(phrase[i]) \in DOMAIN tokens
            /\ \E p \in Range(tokens[stem(phrase[1])]) :
                   \A i \in 1..Len(phrase) :
                       (p + i - 1) \in Range(tokens[stem(phrase[i])])

\* The filter callback at fts.ts 604-617.
passesPhrases(idx, phrases, match) ==
    /\ \A t \in match.terms :
           /\ t \in DOMAIN idx.terms
           /\ match._id \in DOMAIN idx.terms[t].positions
    /\ checkPhrases(phrases, [t \in match.terms |-> idx.terms[t].positions[match._id]])

\* The candidate matches of a query, in insertion order, before scoring.
candidates(idx, query) ==
    LET stemmedTerms == expandTerms(idx, collectCorrelations(idx, query.terms), 1)
    IN  addTuples(idx, query.filter, NewOrdered,
                  collectMatchesFromTrie(idx, stemmedTerms.keys, 1), 1)

\* The ids of the root set: the candidates that pass the phrase filter.
rootIds(idx, query, matchSet) ==
    IF Len(query.phrases) = 0 THEN matchSet.keys
    ELSE SelectSeq(matchSet.keys,
                   LAMBDA d : passesPhrases(idx, query.phrases, matchSet.val[d]))

-----------------------------------------------------------------------------
(* Neighbor resolution (fts.ts 459-517). *)

\* Array.from(set) after set.add(id): ids in first-insertion order.
addUnique(ids, id) == IF id \in Range(ids) THEN ids ELSE Append(ids, id)

\* The truthiness test `if (ancestorID)` / `if (descendentID)`.
truthyId(id) == id # 0

RECURSIVE resolveNeighbors(_, _, _, _)
resolveNeighbors(idx, urls, i, ids) ==
    IF i > Len(urls) THEN ids
    ELSE resolveNeighbors(idx, urls, i + 1,
             IF urls[i] \in DOMAIN idx.urlToId /\ truthyId(idx.urlToId[urls[i]])
             THEN addUnique(ids, idx.urlToId[urls[i]])
             ELSE ids)

\* The two loops at fts.ts 499-516: a neighbor missing from the base set
\* gets a placeholder of relevancy 0.
RECURSIVE attachNeighbors(_, _)
attachNeighbors(baseSet, ids) ==
    IF ids = <<>> THEN baseSet
    ELSE attachNeighbors(IF Head(ids) \in DOMAIN baseSet.val THEN baseSet
                         ELSE OSet(baseSet, Head(ids), NewMatch(Head(ids), 0)),
                         Tail(ids))

\* [idx, baseSet, threw]: links that are not iterable make the loop at
\* fts.ts 486 throw, after the incoming list has been cached.
getNeighbors(idx, baseSet, id) ==
    IF id \notin DOMAIN idx.idToUrl
    THEN [idx |-> idx, baseSet |-> baseSet, threw |-> FALSE]
    ELSE LET url      == idx.idToUrl[id]
             links    == Get(idx.linkGraph, url, ArrayLinks(<<>>))
             incoming == IF id \in DOMAIN idx.incomingNeighbors
                         THEN idx.incomingNeighbors[id]
                         ELSE resolveNeighbors(idx,
                                  Get(idx.inverseLinkGraph, url, <<>>), 1, <<>>)
             idx1     == [idx EXCEPT !.incomingNeighbors = Put(@, id, incoming)]
             cached   == id \in DOMAIN idx.outgoingNeighbors
         IN  IF ~cached /\ links.kind = "number"
             THEN [idx |-> idx1, baseSet |-> baseSet, threw |-> TRUE]
             ELSE LET outgoing == IF cached THEN idx.outgoingNeighbors[id]
                                  ELSE resolveNeighbors(idx, links.items, 1, <<>>)
                      idx2     == [idx1 EXCEPT !.outgoingNeighbors = Put(@, id, outgoing)]
                      grown    == attachNeighbors(attachNeighbors(baseSet, incoming),
                                                  outgoing)
                  IN  [ idx |-> idx2,
                        baseSet |->
                            [grown EXCEPT
                                !.val[id].incomingNeighbors = @ \o incoming,
                                !.val[id].outgoingNeighbors = @ \o outgoing],
                        threw |-> FALSE ]

RECURSIVE expandBaseSet(_, _, _, _)
expandBaseSet(idx, baseSet, roots, i) ==
    IF i > Len(roots) THEN [idx |-> idx, baseSet |-> baseSet, threw |-> FALSE]
    ELSE LET r == getNeighbors(idx, baseSet, roots[i])
         IN  IF r.threw THEN r
             ELSE expandBaseSet(r.idx, r.baseSet, roots, i + 1)

-----------------------------------------------------------------------------
(* search (fts.ts 531-644) and hits (fts.ts 59-153).                       *)
(*                                                                         *)
(* Relevancy, authority and hub scores are floating-point sums of          *)
(* logarithms.  The model keeps, per root match, only the sign of its      *)
(* relevancyScore (-1, 0 or 1), given to search as rel; a placeholder      *)
(* has the relevancyScore 0 it is constructed with.  The order of the      *)
(* returned list follows those scores and is not modelled: a result is     *)
(* the set of matches returned, which MAX_MATCHES caps.                    *)

MAX_MATCHES == 150

capLength(matches, maxLength) ==
    IF Cardinality(matches) > maxLength
    THEN CHOOSE c \in SUBSET matches : Cardinality(c) = maxLength
    ELSE matches

\* Mutant of cutZeroRelevancy: matches of relevancy 0 are kept.
cutNegativeRelevancy(matches) == {m \in matches : m.relevancyScore >= 0}

\* "Cut anything with zero relevancy"
cutZeroRelevancy(matches) == {m \in matches : m.relevancyScore > 0}

hits(matches) == capLength(cutZeroRelevancy(matches), MAX_MATCHES)

\* The part of search that does not depend on the scores: the root set and,
\* with useHits, the base set.  [idx, threw, roots, baseSet]
gather(idx, query, useHits) ==
    LET matchSet == candidates(idx, query)
        roots    == rootIds(idx, query, matchSet)
        rootSet  == [keys |-> roots, val |-> [d \in Range(roots) |-> matchSet.val[d]]]
    IN  IF ~useHits
        THEN [idx |-> idx, threw |-> FALSE, roots |-> roots, baseSet |-> rootSet]
        ELSE LET r == expandBaseSet(idx, rootSet, roots, 1)
             IN  [idx |-> r.idx, threw |-> r.threw, roots |-> roots,
                  baseSet |-> r.baseSet]

\* The matches search returns, once the root matches have their scores.
rank(g, useHits, rel) ==
    LET scored == {[g.baseSet.val[d] EXCEPT
                       !.relevancyScore = IF d \in Range(g.roots) THEN rel[d] ELSE @] :
                   d \in DOMAIN g.baseSet.val}
    IN  IF g.threw THEN {}
        ELSE IF ~useHits THEN capLength(scored, MAX_MATCHES)
        ELSE hits(scored)

\* [idx, threw, matches]
search(idx, query, useHits, rel) ==
    LET g == gather(idx, query, useHits)
    IN  [idx |-> g.idx, threw |-> g.threw, matches |-> rank(g, useHits, rel)]

-----------------------------------------------------------------------------
(* The documents the model adds. *)

Props == {"manual", "atlas"}

UrlA == <<"a">>
UrlGuideIndex == <<"guide", IndexHtml>>
UrlGuide == <<"guide", "">>

LinkTargets == {UrlA, UrlGuideIndex, UrlGuide}
DocUrls == {UrlA, UrlGuideIndex}

\* The first n elements of a repeating pattern.
TextOf(cycle, n) == [i \in 1..n |-> cycle[((i - 1) % Len(cycle)) + 1]]

Cycles == {<<DB, DBS>>, <<DB, A, DBS>>, <<A, DollarDB>>}

Texts == {TextOf(c, n) : c \in Cycles, n \in 0..MaxLen}

Doc(url, links, weight, title, text) ==
    [ url |-> url, links |-> links, weight |-> weight,
      title |-> title, text |-> text, tags |-> <<>>, headings |-> <<>> ]

\* add's arguments <<propertyName, document>> for documents without link
\* data: a title under either property, a text, or one token in each.
TextCalls ==
    {<<p, Doc(Undefined, NoLinks, 0, t, <<>>)>> : p \in Props, t \in Texts}
    \cup {<<"manual", Doc(Undefined, NoLinks, 0, <<>>, t)>> : t \in Texts}
    \cup {<<"manual", Doc(Undefined, NoLinks, 0, t, u)>> :
             t, u \in {x \in Texts : Len(x) = 1}}

LinkCycles == {<<UrlGuide, UrlA>>, <<UrlGuideIndex, UrlGuideIndex>>, <<UrlA, UrlGuide>>}

LinkLists == {TextOf(c, n) : c \in LinkCycles, n \in 0..MaxLinks}

\* add's arguments for documents with link data; links may be a list of
\* URLs or a value that is not iterable.
LinkCalls ==
    {<<"manual", Doc(u, l, 0, <<DB>>, <<>>)>> :
        u \in DocUrls, l \in {NumberLinks} \cup {ArrayLinks(x) : x \in LinkLists}}
    \cup {<<"atlas", Doc(Undefined, ArrayLinks(<<>>), 3, <<DB>>, <<>>)>>,
          <<"atlas", Doc(UrlA, NoLinks, 3, <<>>, <<>>)>>,
          <<"atlas", Doc(UrlGuideIndex, ArrayLinks(<<UrlGuide>>), 0, <<>>, <<>>)>>}

Calls == TextCalls \cup LinkCalls

-----------------------------------------------------------------------------
(* The index under test: construction and calls of add. *)

NoOutcome == [kind |-> "none"]

NoIndex == [null |-> TRUE]
NoSpelling == [null |-> TRUE]
NoReply == [to |-> "none"]

\* The worker's globals as the module initialises them (worker-searcher.js 14-17).
WorkerInit ==
    /\ index = NoIndex
    /\ documents = EmptyMap
    /\ searchPropertyAliases = EmptyMap
    /\ spelling = NoSpelling
    /\ loading = {}
    /\ reply = NoReply
    /\ origin = [index |-> 0, documents |-> 0, searchPropertyAliases |-> 0]
    /\ syncLog = <<>>

Init ==
    /\ fts = NewIndex
    /\ outcome = NoOutcome
    /\ added = <<>>
    /\ returned = <<>>
    /\ tokenLog = <<>>
    /\ calls = 0
    /\ WorkerInit

\* A call add(propertyName, document) that returns.
AddReturns(S) ==
    \E call \in S :
        LET propertyName == call[1]
            document == call[2]
            r == add(fts, propertyName, document)
        IN  /\ calls < MaxDocs
            /\ calls' = calls + 1
            /\ ~r.threw
            /\ fts' = r.idx
            /\ outcome' = [kind |-> "add", id |-> r.id]
            /\ added' = Append(added, <<propertyName, document>>)
            /\ returned' = Append(returned, r.id)
            /\ tokenLog' = tokenLog \o r.log
            /\ UNCHANGED workerVars

\* A call add(propertyName, document) that throws: the caller sees no id.
AddThrows(S) ==
    \E call \in S :
        LET propertyName == call[1]
            document == call[2]
            r == add(fts, propertyName, document)
        IN  /\ calls < MaxDocs
            /\ calls' = calls + 1
            /\ r.threw
            /\ fts' = r.idx
            /\ outcome' = [kind |-> "addThrew"]
            /\ tokenLog' = tokenLog \o r.log
            /\ UNCHANGED <<added, returned>>
            /\ UNCHANGED workerVars

Next ==
    \/ AddReturns(Calls)
    \/ AddThrows(Calls)

Spec == Init /\ [][Next]_vars

-----------------------------------------------------------------------------
(* The index under test: calls of search. *)

\* add's arguments in the runs that also search: titled documents with the
\* longest link lists, one whose links are not iterable, and two with a
\* title only (a phrase across a stop word, a correlation-prefixed token).
SearchCalls ==
    {<<"manual", Doc(u, ArrayLinks(l), 0, <<DB>>, <<>>)>> :
        u \in DocUrls, l \in {x \in LinkLists : Len(x) = MaxLinks}}
    \cup {<<"manual", Doc(UrlA, NumberLinks, 0, <<DB>>, <<>>)>>}
    \cup {<<"atlas", Doc(Undefined, NoLinks, 0, t, <<>>)>> :
             t \in {<<DB, A, DBS>>, <<A, DollarDB>>}}

\* Parsed queries (Query.ts is not part of the sources; section 4.2 of the
\* specification): the terms in insertion order and the phrases, whose
\* terms are also terms of the query.
QueryShapes ==
    { [terms |-> <<DB>>, phrases |-> <<>>],
      [terms |-> << <<"d">> >>, phrases |-> <<>>],
      [terms |-> <<DB, DBS>>, phrases |-> << <<DB, DBS>> >>] }

\* The signs a root match's relevancyScore may have.
RelevancySigns == {-1, 0, 1}

\* A call search(query, useHits) with a filter set on the query.  The model
\* explores one search after the construction and after each call of add.
Search ==
    /\ outcome.kind \in {"none", "add", "addThrew"}
    /\ \E shape \in QueryShapes, filter \in SUBSET (0..(fts.docID - 1)),
          useHits \in BOOLEAN :
        LET query == [terms |-> shape.terms, phrases |-> shape.phrases,
                      filter |-> filter]
            g     == gather(fts, query, useHits)
        IN  \E rel \in [Range(g.roots) -> RelevancySigns] :
                /\ fts' = g.idx
                /\ outcome' =
                       [ kind |-> IF g.threw THEN "searchThrew" ELSE "search",
                         useHits |-> useHits,
                         filter |-> filter,
                         ids |-> {m._id : m \in rank(g, useHits, rel)},
                         placeholders |-> (DOMAIN g.baseSet.val) \ Range(g.roots) ]
                /\ UNCHANGED <<added, returned, tokenLog, calls>>
                /\ UNCHANGED workerVars

SearchNext ==
    \/ AddReturns(SearchCalls)
    \/ AddThrows(SearchCalls)
    \/ Search

SearchSpec == Init /\ [][SearchNext]_vars

-----------------------------------------------------------------------------
(* The index under test: correlations, then titled documents, and queries. *)

DOC == <<"d", "o", "c">>
KV == <<"k", "v">>
SQL == <<"s", "q", "l">>

\* The arguments of correlateWord: a chain of three single-term hops (the
\* first one stored under a plural synonym), a hop that closes a cycle, a
\* second and closer correlation for one synonym, and a bigram.
CorrelationCalls ==
    { [word |-> <<SQL>>, synonym |-> DBS, closeness |-> 5],
      [word |-> <<DB>>, synonym |-> DOC, closeness |-> 9],
      [word |-> <<DOC>>, synonym |-> KV, closeness |-> 5],
      [word |-> <<KV>>, synonym |-> SQL, closeness |-> 9],
      [word |-> <<SQL>>, synonym |-> DB, closeness |-> 9],
      [word |-> <<SQL, DB>>, synonym |-> KV, closeness |-> 9] }

\* add's arguments: documents with a title only.
TitledCalls ==
    {<<"manual", Doc(Undefined, NoLinks, 0, t, <<>>)>> : t \in {<<DB>>, <<DOC, DBS>>}}

\* The terms of the parsed queries: one term, two adjacent terms, a term
\* late in the chain, and a term with one of its prefixes.
TermLists == { <<SQL>>, <<SQL, DB>>, <<DOC>>, << <<"d">>, DB >> }

\* A call correlateWord(word, synonym, closeness) on the new index.
Correlate ==
    \E c \in CorrelationCalls :
        /\ added = <<>>
        /\ calls < MaxCorrelations
        /\ calls' = calls + 1
        /\ fts' = correlateWord(fts, c.word, c.synonym, c.closeness)
        /\ outcome' = [kind |-> "correlate"]
        /\ UNCHANGED <<added, returned, tokenLog>>
        /\ UNCHANGED workerVars

\* A call add(propertyName, document) with a titled document.
AddTitled ==
    \E call \in TitledCalls :
        \E r \in {add(fts, call[1], call[2])} :
            /\ Len(added) < MaxDocs
            /\ ~r.threw
            /\ fts' = r.idx
            /\ outcome' = [kind |-> "add", id |-> r.id]
            /\ added' = Append(added, call)
            /\ returned' = Append(returned, r.id)
            /\ tokenLog' = tokenLog \o r.log
            /\ UNCHANGED calls
            /\ UNCHANGED workerVars

\* A call search(query, false) whose filter accepts every document: the
\* outcome keeps the expanded terms (stemmedTerms after the loop at fts.ts
\* 538-546) and, per candidate, how often each term was scored.
Score ==
    \E terms \in TermLists :
        LET query == [terms |-> terms, phrases |-> <<>>, filter |-> 0..(fts.docID - 1)]
        IN  \E matchSet \in {candidates(fts, query)} :
                /\ outcome.kind \in {"none", "correlate", "add"}
                /\ outcome' =
                       [ kind |-> "score",
                         terms |-> terms,
                         expanded |-> expandTerms(fts, collectCorrelations(fts, terms), 1),
                         contributions |->
                             [d \in DOMAIN matchSet.val |-> matchSet.val[d].contributions] ]
                /\ UNCHANGED <<fts, added, returned, tokenLog, calls>>
                /\ UNCHANGED workerVars

QueryNext ==
    \/ Correlate
    \/ AddTitled
    \/ Score

QuerySpec == Init /\ [][QueryNext]_vars

-----------------------------------------------------------------------------
(* The worker: sync (worker-searcher.js 80-163). *)

\* correlations.js is not part of the sources: one [term, synonym, weight].
correlations == << [term |-> <<SQL>>, synonym |-> DB, weight |-> 8] >>

RECURSIVE correlateAll(_, _)
correlateAll(idx, i) ==
    IF i > Len(correlations) THEN idx
    ELSE correlateAll(correlateWord(idx, correlations[i].term, correlations[i].synonym,
                                    correlations[i].weight),
                      i + 1)

\* url.replace(/\/+$/, ''): a trailing slash is a trailing empty segment.
RECURSIVE stripTrailingSlashes(_)
stripTrailingSlashes(url) ==
    IF url # <<>> /\ url[Len(url)] = ""
    THEN stripTrailingSlashes(SubSeq(url, 1, Len(url) - 1))
    ELSE url

\* slug.replace(/^\/+/, ''): a leading slash is a leading empty segment.
RECURSIVE stripLeadingSlashes(_)
stripLeadingSlashes(slug) ==
    IF slug # <<>> /\ Head(slug) = ""
    THEN stripLeadingSlashes(Tail(slug))
    ELSE slug

\* `${url}/${doc.slug}`
docUrl(manifest, doc) ==
    stripTrailingSlashes(manifest.body.url) \o stripLeadingSlashes(doc.slug)

\* (doc.headings || []).join(' '): the tokens of all headings.
RECURSIVE joinHeadings(_)
joinHeadings(headings) ==
    IF headings = <<>> THEN <<>> ELSE Head(headings) \o joinHeadings(Tail(headings))

\* The document sync hands to newIndex.add (worker-searcher.js 139-147).
indexedDocument(manifest, doc) ==
    [ links |-> doc.links, url |-> docUrl(manifest, doc),
      weight |-> weightOrOne(doc.weight), text |-> doc.text, tags |-> doc.tags,
      headings |-> joinHeadings(doc.headings), title |-> doc.title ]

\* The entry of newDocuments (worker-searcher.js 149-155).
returnedDocument(manifest, doc) ==
    [ title |-> doc.title, preview |-> doc.preview, url |-> docUrl(manifest, doc),
      searchProperty |-> manifest.searchProperty,
      includeInGlobalSearch |-> manifest.body.includeInGlobalSearch ]

\* The map over manifests (worker-searcher.js 111-131): JSON.parse throws
\* on a malformed body.  [threw, aliases]
RECURSIVE parseManifests(_, _, _)
parseManifests(manifests, i, aliases) ==
    IF i > Len(manifests) THEN [threw |-> FALSE, aliases |-> aliases]
    ELSE IF manifests[i].body.kind = "malformed"
    THEN [threw |-> TRUE, aliases |-> aliases]
    ELSE LET body  == manifests[i].body
             named == [a \in (DOMAIN aliases) \cup Range(body.aliases) |->
                          IF a \in Range(body.aliases)
                          THEN manifests[i].searchProperty
                          ELSE aliases[a]]
         IN  parseManifests(manifests, i + 1, named)

\* The loops over manifests and their documents (worker-searcher.js 136-157).
\* r is the one call of newIndex.add for the document.
\* [threw, index, documents]
RECURSIVE addManifests(_, _, _, _)
addManifests(manifests, i, j, acc) ==
    IF i > Len(manifests) THEN acc
    ELSE IF j > Len(manifests[i].body.documents)
    THEN addManifests(manifests, i + 1, 1, acc)
    ELSE LET doc == manifests[i].body.documents[j]
         IN  CHOOSE filled \in
                 { IF r.threw
                   THEN [threw |-> TRUE, index |-> r.idx, documents |-> acc.documents]
                   ELSE addManifests(manifests, i, j + 1,
                            [ threw |-> FALSE, index |-> r.idx,
                              documents |->
                                  Put(acc.documents, r.id,
                                      returnedDocument(manifests[i], doc)) ]) :
                   r \in {add(acc.index, manifests[i].searchProperty,
                              indexedDocument(manifests[i], doc))} } : TRUE

\* Everything sync builds before it assigns the globals.
\* [threw, error, index, documents, aliases]
build(manifests) ==
    LET parsed == parseManifests(manifests, 1, EmptyMap)
        filled == addManifests(manifests, 1, 1,
                      [ threw |-> FALSE, index |-> correlateAll(NewIndex, 1),
                        documents |-> EmptyMap ])
    IN  IF parsed.threw
        THEN [ threw |-> TRUE, error |-> "SyntaxError",
               index |-> correlateAll(NewIndex, 1),
               documents |-> EmptyMap, aliases |-> parsed.aliases ]
        ELSE [ threw |-> filled.threw,
               error |-> IF filled.threw THEN "TypeError" ELSE "",
               index |-> filled.index, documents |-> filled.documents,
               aliases |-> parsed.aliases ]

\* Mutant of install: the new index is assigned before it is filled.
installIndexFirst(g, built, n) ==
    IF built.threw
    THEN [g EXCEPT !.index = built.index, !.origin.index = n]
    ELSE [ index |-> built.index, searchPropertyAliases |-> built.aliases,
           documents |-> built.documents, loading |-> g.loading \cup {n},
           origin |-> [index |-> n, documents |-> n, searchPropertyAliases |-> n] ]

\* Mutant of install: a sync that throws drops the index.
installOrDrop(g, built, n) ==
    IF built.threw
    THEN [g EXCEPT !.index = NoIndex, !.origin.index = n]
    ELSE [ index |-> built.index, searchPropertyAliases |-> built.aliases,
           documents |-> built.documents, loading |-> g.loading \cup {n},
           origin |-> [index |-> n, documents |-> n, searchPropertyAliases |-> n] ]

\* The last four statements of sync (worker-searcher.js 159-162), reached
\* only when nothing threw: start the dictionary load, assign the globals.
\* g holds the globals; n numbers the sync.
install(g, built, n) ==
    IF built.threw THEN g
    ELSE [ index |-> built.index, searchPropertyAliases |-> built.aliases,
           documents |-> built.documents, loading |-> g.loading \cup {n},
           origin |-> [index |-> n, documents |-> n, searchPropertyAliases |-> n] ]

\* [threw, error, globals]
sync(g, manifests, n) ==
    LET built == build(manifests)
    IN  [threw |-> built.threw, error |-> built.error, globals |-> install(g, built, n)]

-----------------------------------------------------------------------------
(* The worker: search (worker-searcher.js 26-78). *)

MAXIMUM_TERMS == 10

\* Mutant of tooLong: an off-by-one comparison.
tooLongAtLimit(terms) == Len(terms) >= MAXIMUM_TERMS

\* parsedQuery.terms.size > MAXIMUM_TERMS; terms holds the distinct terms.
tooLong(terms) == Len(terms) > MAXIMUM_TERMS

\* searchProperties with every alias replaced by its property.
resolveAliases(aliases, searchProperties) ==
    {Get(aliases, p, p) : p \in Range(searchProperties)}

\* The filter that search sets on the parsed query, as the ids it accepts.
queryFilter(docs, aliases, searchProperties) ==
    IF Len(searchProperties) > 0
    THEN {id \in DOMAIN docs :
             docs[id].searchProperty \in resolveAliases(aliases, searchProperties)}
    ELSE {id \in DOMAIN docs : docs[id].includeInGlobalSearch = TRUE}

\* What search returns for a match.
resultFor(docs, id) ==
    [_id |-> id, title |-> docs[id].title, preview |-> docs[id].preview,
     url |-> docs[id].url]

\* The consulted dictionary: spelling is read when it is loaded and the
\* results are empty or the first score is at most 0.6.  Without HITS every
\* score is the 0.0 a Match is constructed with; with HITS the score is a
\* floating-point value, given as lowScore.
consulted(spell, results, useHits, lowScore) ==
    IF spell # NoSpelling /\ (results = {} \/ ~useHits \/ lowScore)
    THEN spell.sync
    ELSE 0

\* The message posted for a search: an error, or the results.  terms and
\* searched record the size of the parsed query and whether index.search ran;
\* dictionary records the sync whose dictionary gave the corrections (0: none).
ErrorReply(to, error, terms) ==
    [ to |-> to, kind |-> "error", error |-> error, results |-> {},
      terms |-> terms, searched |-> FALSE, dictionary |-> 0 ]

ResultsReply(results, terms, dictionary) ==
    [ to |-> "search", kind |-> "results", error |-> "", results |-> results,
      terms |-> terms, searched |-> TRUE, dictionary |-> dictionary ]

OkReply ==
    [ to |-> "sync", kind |-> "ok", error |-> "", results |-> {},
      terms |-> 0, searched |-> FALSE, dictionary |-> 0 ]

-----------------------------------------------------------------------------
(* The worker: the messages it handles (worker-searcher.js 165-184). *)

MDoc(slug, title, headings, links) ==
    [ slug |-> slug, title |-> title, text |-> <<>>, tags |-> <<>>,
      headings |-> headings, links |-> links, weight |-> 0, preview |-> title ]

JsonBody(url, aliases, includeInGlobalSearch, docs) ==
    [ kind |-> "json", url |-> url, aliases |-> aliases,
      includeInGlobalSearch |-> includeInGlobalSearch, documents |-> docs ]

ManualManifest ==
    [ searchProperty |-> "manual",
      body |-> JsonBody(<<"manual", "">>, <<>>, TRUE,
                  << MDoc(<<"", "a">>, <<DB>>, <<>>,
                          ArrayLinks(<< <<"manual", "b">> >>)),
                     MDoc(<<"b">>, <<DBS>>, << <<DB>>, <<A, DBS>> >>,
                          ArrayLinks(<<>>)) >>) ]

AtlasManifest ==
    [ searchProperty |-> "atlas",
      body |-> JsonBody(<<"atlas">>, <<"cloud">>, FALSE,
                  << MDoc(<<"c">>, <<DB>>, <<>>, NoLinks) >>) ]

BrokenLinksManifest ==
    [ searchProperty |-> "atlas",
      body |-> JsonBody(<<"atlas">>, <<"cloud">>, FALSE,
                  << MDoc(<<"c">>, <<DB>>, <<>>, NumberLinks) >>) ]

MalformedManifest == [searchProperty |-> "atlas", body |-> [kind |-> "malformed"]]

SyncInputs ==
    { <<ManualManifest>>, <<AtlasManifest>>, <<ManualManifest, AtlasManifest>>,
      <<MalformedManifest>>, <<AtlasManifest, MalformedManifest>>,
      <<ManualManifest, BrokenLinksManifest>> }

\* A query of n distinct terms: "db" and n - 1 terms of distinct lengths.
QueryOf(n) == [i \in 1..n |-> IF i = 1 THEN DB ELSE [j \in 1..i |-> "q"]]

WorkerQueries == {<<DB>>, <<SQL>>, QueryOf(MAXIMUM_TERMS), QueryOf(MAXIMUM_TERMS + 1)}

PropertyLists == {<<>>, <<"manual">>, <<"cloud">>}

Globals ==
    [ index |-> index, searchPropertyAliases |-> searchPropertyAliases,
      documents |-> documents, loading |-> loading, origin |-> origin ]

\* A sync message: sync(message.sync), then {ok: true} or the error.
HandleSync ==
    \E manifests \in SyncInputs :
        \E r \in {sync(Globals, manifests, Len(syncLog) + 1)} :
            /\ Len(syncLog) < MaxSyncs
            /\ index' = r.globals.index
            /\ searchPropertyAliases' = r.globals.searchPropertyAliases
            /\ documents' = r.globals.documents
            /\ loading' = r.globals.loading
            /\ origin' = r.globals.origin
            /\ reply' = IF r.threw THEN ErrorReply("sync", r.error, 0) ELSE OkReply
            /\ syncLog' = Append(syncLog, IF r.threw THEN "threw" ELSE "ok")
            /\ UNCHANGED spelling
            /\ UNCHANGED ftsVars

\* A search message: search(queryString, properties, useHits), then the
\* results or the error.
HandleSearch ==
    \E terms \in WorkerQueries, searchProperties \in PropertyLists,
       useHits \in BOOLEAN :
        IF index = NoIndex
        THEN /\ reply' = ErrorReply("search", "still-indexing", Len(terms))
             /\ UNCHANGED <<index, documents, searchPropertyAliases, spelling,
                            loading, origin, syncLog>>
             /\ UNCHANGED ftsVars
        ELSE IF tooLong(terms)
        THEN /\ reply' = ErrorReply("search", "query-too-long", Len(terms))
             /\ UNCHANGED <<index, documents, searchPropertyAliases, spelling,
                            loading, origin, syncLog>>
             /\ UNCHANGED ftsVars
        ELSE LET query == [ terms |-> terms, phrases |-> <<>>,
                            filter |-> queryFilter(documents, searchPropertyAliases,
                                                   searchProperties) ]
             IN  \E g \in {gather(index, query, useHits)} :
                 \E rel \in [Range(g.roots) -> RelevancySigns],
                    lowScore \in IF useHits /\ spelling # NoSpelling
                                 THEN BOOLEAN ELSE {TRUE} :
                     LET results == {resultFor(documents, m._id) :
                                        m \in rank(g, useHits, rel)}
                     IN  /\ index' = g.idx
                         /\ reply' =
                                IF g.threw
                                THEN ErrorReply("search", "TypeError", Len(terms))
                                ELSE ResultsReply(results, Len(terms),
                                         consulted(spelling, results, useHits, lowScore))
                         /\ UNCHANGED <<documents, searchPropertyAliases, spelling,
                                        loading, origin, syncLog>>
                         /\ UNCHANGED ftsVars

\* A message that is neither a search nor a sync.
HandleUnknown ==
    /\ reply' = ErrorReply("unknown", "Unknown command", 0)
    /\ UNCHANGED <<index, documents, searchPropertyAliases, spelling, loading,
                   origin, syncLog>>
    /\ UNCHANGED ftsVars

\* The callback of setupSpellingDictionary runs with a dictionary: it builds
\* the dictionary of its sync and assigns spelling.  add takes no callback,
\* so the words that sync collects stay empty.
DictionaryLoaded ==
    \E n \in loading :
        /\ loading' = loading \ {n}
        /\ spelling' = [sync |-> n, words |-> {}]
        /\ UNCHANGED <<index, documents, searchPropertyAliases, reply, origin, syncLog>>
        /\ UNCHANGED ftsVars

\* The callback runs with an error: it logs it and throws on dict.dic.
DictionaryFailed ==
    \E n \in loading :
        /\ loading' = loading \ {n}
        /\ UNCHANGED <<index, documents, searchPropertyAliases, spelling, reply,
                       origin, syncLog>>
        /\ UNCHANGED ftsVars

WorkerNext ==
    \/ HandleSync
    \/ HandleSearch
    \/ HandleUnknown
    \/ DictionaryLoaded
    \/ DictionaryFailed

WorkerSpec == Init /\ [][WorkerNext]_vars

-----------------------------------------------------------------------------
(* Claims about add. *)

\* The stored terms that occur at least once in a text.
TermsOf(text) ==
    {storedToken(text[i]) : i \in {j \in 1..Len(text) : ~isStopWord(text[j])}}

\* The number of documents added under property p with term t in field f.
DocsWith(t, p, f) ==
    Cardinality({i \in 1..Len(added) :
                    added[i][1] = p /\ t \in TermsOf(fieldText(added[i][2], f))})

\* C1: for every indexed term t, property p and field f, getTimesAppeared(p, f)
\* equals the number of documents added under p in which t occurs in field f.
C1_TimesAppearedCountsDocuments ==
    \A t \in DOMAIN fts.terms : \A p \in Props : \A f \in Range(FieldNames) :
        getTimesAppeared(fts.terms[t], p, f) = DocsWith(t, p, f)

\* C3: a call of add that throws leaves the index exactly as it was.
C3_FailedAddLeavesIndexUnchanged ==
    [][(calls' = calls + 1 /\ outcome'.kind = "addThrew") => fts' = fts]_vars

\* C5: the k-th add that returns, returns k-1, and documentWeights has an
\* entry for exactly the ids returned so far.
C5_IdsDenseFromZero ==
    /\ \A k \in 1..Len(returned) : returned[k] = k - 1
    /\ DOMAIN fts.documentWeights = 0..(Len(returned) - 1)
    /\ fts.docID = Len(returned)

\* C5 witness: two adds have returned, one for a document with a URL and
\* links and one for a document without any text.
C5_Witness ==
    /\ Len(returned) = 2
    /\ \E i \in 1..Len(added) : added[i][2].url # Undefined
    /\ \E i \in 1..Len(added) :
           \A f \in Range(FieldNames) : fieldText(added[i][2], f) = <<>>

\* The URLs a stored link list holds.
ListedLinks(links) == Range(links.items)

\* C9: for every key u of linkGraph and every v listed in linkGraph[u],
\* inverseLinkGraph has an entry for v and that entry contains u.
C9_InverseGraphMirrorsForward ==
    \A u \in DOMAIN fts.linkGraph : \A v \in ListedLinks(fts.linkGraph[u]) :
        /\ v \in DOMAIN fts.inverseLinkGraph
        /\ u \in Range(fts.inverseLinkGraph[v])

\* The positions the log holds for term t in document d, in ingest order.
LoggedPositions(t, d) ==
    LET es == SelectSeq(tokenLog, LAMBDA e : e.term = t /\ e.doc = d)
    IN  [i \in 1..Len(es) |-> es[i].pos]

Dist(a, b) == IF a < b THEN b - a ELSE a - b

\* C10: TermEntry.positions holds the positions in ingest order; they are
\* strictly increasing; consecutive non-stop tokens of one field of one
\* document differ by exactly 1; tokens of different fields or documents
\* differ by at least 2.
C10_PositionsSeparateFields ==
    /\ \A t \in DOMAIN fts.terms : \A d \in DOMAIN fts.terms[t].positions :
           fts.terms[t].positions[d] = LoggedPositions(t, d)
    /\ \A i \in 1..Len(tokenLog) :
           /\ tokenLog[i].term \in DOMAIN fts.terms
           /\ tokenLog[i].doc \in DOMAIN fts.terms[tokenLog[i].term].positions
    /\ \A i, j \in 1..Len(tokenLog) :
           LET a == tokenLog[i]
               b == tokenLog[j]
           IN  /\ i < j => a.pos < b.pos
               /\ (a.doc = b.doc /\ a.field = b.field /\ b.k = a.k + 1)
                      => b.pos = a.pos + 1
               /\ (a.doc # b.doc \/ a.field # b.field) => Dist(a.pos, b.pos) >= 2

\* C10 witness: tokens of two fields of one document, tokens of two
\* documents, and two tokens of one field separated by a stop word.
C10_Witness ==
    /\ \E i, j \in 1..Len(tokenLog) :
           tokenLog[i].doc = tokenLog[j].doc /\ tokenLog[i].field # tokenLog[j].field
    /\ \E i, j \in 1..Len(tokenLog) : tokenLog[i].doc # tokenLog[j].doc
    /\ \E i \in 1..Len(added) : \E f \in Range(FieldNames) :
           fieldText(added[i][2], f) = <<DB, A, DBS>>

-----------------------------------------------------------------------------
(* Claims about search. *)

\* C2: the incoming and outgoing neighbor lists that getNeighbors computes
\* for a document never contain the document itself.
C2_NeighborsExcludeSelf ==
    /\ \A d \in DOMAIN fts.incomingNeighbors : d \notin Range(fts.incomingNeighbors[d])
    /\ \A d \in DOMAIN fts.outgoingNeighbors : d \notin Range(fts.outgoingNeighbors[d])

\* C4: every match that search returns, with or without HITS, has an id
\* that the query's filter accepts.
C4_ResultsPassFilter ==
    outcome.kind = "search" => \A id \in outcome.ids : accepts(outcome.filter, id)

\* C4 witness: a search with HITS returned a match while the base set held a
\* neighbor placeholder that the filter rejects.
C4_Witness ==
    /\ outcome.kind = "search"
    /\ outcome.useHits
    /\ outcome.ids # {}
    /\ \E id \in outcome.placeholders : ~accepts(outcome.filter, id)

\* C13: within one search, each pair of a document and an indexed term
\* adds its relevance to the document's relevancyScore at most once, also
\* when several expanded terms are prefixes of the indexed term.
C13_PairScoredOnce ==
    outcome.kind = "score" =>
        \A d \in DOMAIN outcome.contributions :
            \A t \in DOMAIN outcome.contributions[d] :
                outcome.contributions[d][t] <= 1

\* The incoming neighbor ids of document d on the link graph as it is now.
FreshIncoming(d) ==
    Range(resolveNeighbors(fts, Get(fts.inverseLinkGraph, fts.idToUrl[d], <<>>), 1, <<>>))

\* The outgoing neighbor ids of document d on the link graph as it is now;
\* d's link list is iterable.
FreshOutgoing(d) ==
    Range(resolveNeighbors(fts, fts.linkGraph[fts.idToUrl[d]].items, 1, <<>>))

\* C12: after any calls of add and of search with HITS, the neighbor ids
\* cached for a document are the ones a fresh computation on the current
\* linkGraph, inverseLinkGraph and urlToId gives.
C12_CachedNeighborsAreFresh ==
    /\ \A d \in DOMAIN fts.incomingNeighbors :
           Range(fts.incomingNeighbors[d]) = FreshIncoming(d)
    /\ \A d \in DOMAIN fts.outgoingNeighbors :
           /\ Get(fts.linkGraph, fts.idToUrl[d], ArrayLinks(<<>>)).kind = "array"
           /\ Range(fts.outgoingNeighbors[d]) = FreshOutgoing(d)

-----------------------------------------------------------------------------
(* Claims about the worker. *)

\* C6: a search handled before the first successful sync is answered with
\* the error still-indexing and no results; once a sync has succeeded, no
\* search is answered with still-indexing, also after a later sync threw.
C6_StillIndexingOnlyBeforeFirstSync ==
    reply.to = "search" =>
        IF "ok" \in Range(syncLog)
        THEN reply.error # "still-indexing"
        ELSE reply.error = "still-indexing" /\ reply.results = {}

\* C6 witness: a search is answered with results after a successful sync
\* that was followed by a sync that threw.
C6_Witness ==
    /\ syncLog = <<"ok", "threw">>
    /\ reply.to = "search"
    /\ reply.kind = "results"
    /\ reply.results # {}

\* C7, as stated: a query of more than 10 distinct terms fails with
\* query-too-long, before index.search runs and without results, and a
\* query of at most 10 distinct terms never fails with query-too-long.
C7_LongQueryFails ==
    reply.to = "search" =>
        /\ reply.terms > MAXIMUM_TERMS =>
               /\ reply.error = "query-too-long"
               /\ ~reply.searched
               /\ reply.results = {}
        /\ reply.terms <= MAXIMUM_TERMS => reply.error # "query-too-long"

\* C7, amended: once an index is installed, a query of more than 10
\* distinct terms fails with query-too-long, before index.search runs and
\* without results; before that it fails with still-indexing; a query of
\* at most 10 distinct terms never fails with query-too-long.
C7_LongQueryFailsOnceIndexed ==
    reply.to = "search" =>
        /\ reply.terms > MAXIMUM_TERMS =>
               /\ reply.error = IF index = NoIndex THEN "still-indexing"
                                ELSE "query-too-long"
               /\ ~reply.searched
               /\ reply.results = {}
        /\ reply.terms <= MAXIMUM_TERMS => reply.error # "query-too-long"

\* C7 witness: with an index installed, a query of 11 terms was answered
\* with query-too-long.
C7_Witness ==
    /\ index # NoIndex
    /\ reply.to = "search"
    /\ reply.terms = MAXIMUM_TERMS + 1
    /\ reply.error = "query-too-long"

\* C8: between two messages, index, documents and searchPropertyAliases
\* come from the same sync, one that completed; a sync that throws leaves
\* all three as they were.
C8_SwapIsAtomic ==
    /\ [](/\ origin.index = origin.documents
          /\ origin.index = origin.searchPropertyAliases
          /\ origin.index # 0 => syncLog[origin.index] = "ok"
          /\ origin.index = 0 => index = NoIndex)
    /\ [][(/\ Len(syncLog') = Len(syncLog) + 1
           /\ syncLog'[Len(syncLog')] = "threw")
          => UNCHANGED <<index, documents, searchPropertyAliases>>]_vars

\* C8 witness: a sync threw on a malformed manifest after an earlier sync
\* had installed its index.
C8_Witness ==
    /\ syncLog = <<"ok", "threw">>
    /\ reply.to = "sync"
    /\ reply.error = "SyntaxError"
    /\ origin.index = 1
    /\ index # NoIndex

-----------------------------------------------------------------------------
(* Claims about the terms of a query. *)

\* The synonyms of the correlations stored under the keys.
Correlates(keys) ==
    {c[1] : c \in UNION {Range(fts.wordCorrelations[k]) :
                            k \in keys \cap DOMAIN fts.wordCorrelations}}

\* The keys collectCorrelations looks up: every stemmed term and every
\* pair of adjacent stemmed terms.
QueryKeys(terms) ==
    {<<stem(terms[i])>> : i \in 1..Len(terms)}
        \cup {<<stem(terms[i]), stem(terms[i + 1])>> : i \in 1..(Len(terms) - 1)}

\* The terms present when the further pass starts.
FirstPass(terms) ==
    {stem(terms[i]) : i \in 1..Len(terms)} \cup Correlates(QueryKeys(terms))

\* The terms after one further pass over FirstPass(terms).
SecondPass(terms) ==
    FirstPass(terms) \cup Correlates({<<t>> : t \in FirstPass(terms)})

\* The largest closeness of the correlations with synonym t under the keys.
MaxCloseness(keys, t) ==
    LET ws == {c[2] : c \in {x \in UNION {Range(fts.wordCorrelations[k]) :
                                     k \in keys \cap DOMAIN fts.wordCorrelations} :
                                x[1] = t}}
    IN  CHOOSE w \in ws : \A v \in ws : v <= w

\* C11: the expanded terms are the stemmed query terms at weight 1.0, the
\* correlates of every query term and adjacent pair, and the correlates,
\* from one further pass, of the terms present when that pass starts; a
\* synonym only reachable over three or more hops is not among them, and a
\* synonym's weight is the largest closeness that introduced it.
C11_ExpansionStopsAfterOnePass ==
    outcome.kind = "score" =>
        LET first == FirstPass(outcome.terms)
            keys  == QueryKeys(outcome.terms) \cup {<<t>> : t \in first}
            stems == {stem(outcome.terms[i]) : i \in 1..Len(outcome.terms)}
        IN  /\ DOMAIN outcome.expanded.val = SecondPass(outcome.terms)
            /\ \A t \in stems : outcome.expanded.val[t] = 10
            /\ \A t \in SecondPass(outcome.terms) \ stems :
                   outcome.expanded.val[t] = MaxCloseness(keys, t)

-----------------------------------------------------------------------------
(* Claims about the spelling dictionary. *)

\* C14: the callback of an older sync never replaces the dictionary of a
\* newer sync, so that once the callbacks of two syncs have run, in either
\* order, spelling is the dictionary of the more recent sync.
C14_OlderCallbackNeverOverwrites ==
    [][spelling # NoSpelling => spelling'.sync >= spelling.sync]_vars

=============================================================================
